---------------------------- MODULE Spec2Model ----------------------------
(***************************************************************************)
(* Model of app.py, the Streamlit dashboard over                           *)
(* table_EDUCACAO_SUPERIOR_RIDE_DF.csv: the cached loader carregar_dados   *)
(* (read, required-column check, rename, numeric coercion, categorical     *)
(* mapping) and the script body that runs on every interaction (sidebar    *)
(* option lists and selection, filtering, metrics and the seven            *)
(* aggregations).                                                          *)
(*                                                                         *)
(* A raw cell of the CSV is a token: a decimal numeral, some other text,   *)
(* or nothing.  A cell of a DataFrame is a number, a str or NaN.  pandas'  *)
(* read_csv decides the type of a column from all of its tokens, so the    *)
(* same numeral is the number 1 in one file and the str "1" in another.    *)
(***************************************************************************)
EXTENDS Integers, Sequences, FiniteSets, TLC

(***************************************************************************)
(* Bounds of the model.                                                    *)
(***************************************************************************)
\* Largest number of data rows of an input file.
MaxRows == 2

(***************************************************************************)
(* Raw tokens and DataFrame cells.                                         *)
(***************************************************************************)
TNum(n) == [k |-> "num", n |-> n, s |-> ""]
TTxt(s) == [k |-> "txt", n |-> 0, s |-> s]
TEmpty == [k |-> "empty", n |-> 0, s |-> ""]

Num(n) == [t |-> "num", n |-> n, s |-> ""]
Str(s) == [t |-> "str", n |-> 0, s |-> s]
NaN == [t |-> "nan", n |-> 0, s |-> ""]
\* Python's None (ano_sel when the year column is not there).
None == [t |-> "none", n |-> 0, s |-> ""]

\* The characters of a token as the file holds them.
TokenText(tok) == IF tok.k = "num" THEN ToString(tok.n) ELSE tok.s

(***************************************************************************)
(* Column names.                                                           *)
(***************************************************************************)
required_original_cols ==
    << "NU_ANO_CENSO", "CO_MUNICIPIO_IES", "nome_municipio", "IN_CAPITAL_IES",
       "TP_ORGANIZACAO_ACADEMICA", "TP_REDE", "TP_CATEGORIA_ADMINISTRATIVA",
       "NO_IES", "SG_IES", "QT_DOC_TOTAL", "QT_TEC_TOTAL", "NO_MANTENEDORA",
       "QT_DOC_EX_SEM_GRAD", "QT_DOC_EX_GRAD", "QT_DOC_EX_ESP",
       "QT_DOC_EX_MEST", "QT_DOC_EX_DOUT",
       "QT_LIVRO_ELETRONICO", "QT_DOC_EX_FEMI", "QT_DOC_EX_MASC" >>

Range(f) == {f[i] : i \in DOMAIN f}

RequiredSet == Range(required_original_cols)

\* The columns= argument of df.rename.
rename_columns ==
    [ NU_ANO_CENSO |-> "Ano do Censo",
      nome_municipio |-> "Município",
      IN_CAPITAL_IES |-> "É Capital?",
      TP_ORGANIZACAO_ACADEMICA |-> "Organização Acadêmica",
      TP_REDE |-> "Tipo de Rede",
      TP_CATEGORIA_ADMINISTRATIVA |-> "Categoria Administrativa",
      NO_MANTENEDORA |-> "Mantenedora",
      NO_IES |-> "Nome da IES",
      SG_IES |-> "Sigla da IES",
      QT_DOC_TOTAL |-> "Total de Docentes",
      QT_TEC_TOTAL |-> "Total de Técnicos",
      QT_DOC_EX_SEM_GRAD |-> "Docentes Sem Graduação",
      QT_DOC_EX_GRAD |-> "Docentes com Graduação",
      QT_DOC_EX_ESP |-> "Docentes com Especialização",
      QT_DOC_EX_MEST |-> "Docentes com Mestrado",
      QT_DOC_EX_DOUT |-> "Docentes com Doutorado",
      QT_LIVRO_ELETRONICO |-> "Total de Livros Eletrônicos",
      QT_DOC_EX_FEMI |-> "Docentes Feminino",
      QT_DOC_EX_MASC |-> "Docentes Masculino" ]

RenamedCols == DOMAIN rename_columns

\* The name a source column has after df.rename.
Renamed(c) == IF c \in RenamedCols THEN rename_columns[c] ELSE c

\* The source column df.rename gave the name d to, when there is one.
SourceOf ==
    [d \in { rename_columns[c] : c \in RenamedCols } |->
        CHOOSE c \in RenamedCols : rename_columns[c] = d]

numeric_cols_to_fill ==
    { "Total de Docentes", "Total de Técnicos",
      "Docentes Sem Graduação", "Docentes com Graduação",
      "Docentes com Especialização", "Docentes com Mestrado",
      "Docentes com Doutorado", "Total de Livros Eletrônicos",
      "Docentes Feminino", "Docentes Masculino" }

capital_map == (1 :> "Sim") @@ (0 :> "Não")

organizacao_map ==
    (1 :> "Universidade") @@ (2 :> "Centro Universitário") @@
    (3 :> "Faculdade") @@
    (4 :> "Instituto Federal de Educação, Ciência e Tecnologia (IF)") @@
    (5 :> "Centro Federal de Educação Tecnológica (CEFET)") @@
    (99 :> "Outra")

rede_map == (1 :> "Pública") @@ (2 :> "Privada")

categoria_map ==
    (1 :> "Pública Federal") @@ (2 :> "Pública Estadual") @@
    (3 :> "Pública Municipal") @@ (4 :> "Privada Comunitária") @@
    (5 :> "Privada Confessional") @@ (6 :> "Privada Filantrópica") @@
    (7 :> "Privada Sem Fins Lucrativos") @@
    (8 :> "Privada Com Fins Lucrativos")

\* The four coded columns, by display name, with their lookup tables.
coded_cols ==
    { "É Capital?", "Organização Acadêmica", "Tipo de Rede",
      "Categoria Administrativa" }

CodeMap(c) ==
    CASE c = "É Capital?" -> capital_map
      [] c = "Organização Acadêmica" -> organizacao_map
      [] c = "Tipo de Rede" -> rede_map
      [] c = "Categoria Administrativa" -> categoria_map

NaoDefinido == "Não Definido"


(***************************************************************************)
(* Input files.  A file is missing, or unreadable as a ;-separated UTF-8   *)
(* table, or has a header (a set of column names) and data rows.  A data   *)
(* row is written by its tokens for nine source columns; the other         *)
(* columns repeat one of them (RawCell).                                   *)
(***************************************************************************)
Seed(ano, mun, ies, cap, org, rede, cat, mant, doc, tec) ==
    [ano |-> ano, mun |-> mun, ies |-> ies, cap |-> cap, org |-> org,
     rede |-> rede, cat |-> cat, mant |-> mant, doc |-> doc, tec |-> tec]

\* The data rows input files are made of.
SeedCatalog ==
    { Seed(TNum(2022), TTxt("Brasília"), TTxt("UnB"), TNum(1), TNum(1),
           TNum(1), TNum(1), TTxt("X"), TNum(10), TNum(5)),
      Seed(TNum(2022), TTxt("Brasília"), TTxt("UCB"), TNum(1), TNum(7),
           TNum(2), TNum(8), TTxt("X"), TTxt("muitos"), TNum(7)),
      Seed(TNum(2021), TTxt("Todos"), TTxt("Todas"), TNum(0), TNum(1),
           TNum(1), TNum(1), TTxt("Y"), TEmpty, TNum(0)),
      Seed(TEmpty, TEmpty, TEmpty, TEmpty, TEmpty,
           TEmpty, TEmpty, TTxt("Y"), TNum(3), TEmpty),
      Seed(TNum(2021), TTxt("Goiânia"), TTxt("UnB"), TNum(0), TNum(3),
           TTxt("x"), TNum(2), TTxt("X"), TNum(10), TNum(2)) }

\* The token a data row holds in source column c.
RawCell(seed, c) ==
    CASE c = "NU_ANO_CENSO" -> seed.ano
      [] c = "CO_MUNICIPIO_IES" -> seed.cap
      [] c = "nome_municipio" -> seed.mun
      [] c = "IN_CAPITAL_IES" -> seed.cap
      [] c = "TP_ORGANIZACAO_ACADEMICA" -> seed.org
      [] c = "TP_REDE" -> seed.rede
      [] c = "TP_CATEGORIA_ADMINISTRATIVA" -> seed.cat
      [] c = "NO_IES" -> seed.ies
      [] c = "SG_IES" -> seed.ies
      [] c = "NO_MANTENEDORA" -> seed.mant
      [] c = "QT_TEC_TOTAL" -> seed.tec
      [] c = "QT_LIVRO_ELETRONICO" -> seed.tec
      [] OTHER -> seed.doc

\* Required columns some headers lack, and columns some headers add: the
\* lower-case spelling of a required name, and a name df.rename produces.
DroppedCols == {"QT_DOC_TOTAL", "TP_REDE"}
ExtraCols == {"qt_doc_total", "Total de Docentes"}

Headers ==
    { (RequiredSet \ d) \cup e : d \in SUBSET DroppedCols, e \in SUBSET ExtraCols }

RowSeqs == UNION { [1..n -> SeedCatalog] : n \in 0..MaxRows }

\* The rows of the files whose header is not exactly the required columns.
VariantRows == CHOOSE r \in RowSeqs : Len(r) = 1 /\ r[1].doc = TNum(10) /\ r[1].rede = TNum(1)

File(exists, parseable, header, rows) ==
    [exists |-> exists, parseable |-> parseable, header |-> header, rows |-> rows]

MissingFile == File(FALSE, FALSE, {}, << >>)
GarbledFile == File(TRUE, FALSE, {}, << >>)

Files ==
    {MissingFile, GarbledFile}
    \cup { File(TRUE, TRUE, RequiredSet, r) : r \in RowSeqs }
    \cup { File(TRUE, TRUE, h, VariantRows) : h \in Headers }

(***************************************************************************)
(* pd.read_csv(path, sep=';', encoding='utf-8').                           *)
(***************************************************************************)
\* The tokens of column c of file f.
ColumnTokens(f, c) == { RawCell(f.rows[i], c) : i \in DOMAIN f.rows }

\* read_csv gives a column an integer or float dtype when every token of it
\* is a numeral or empty, and otherwise keeps every token as a str.
NumericColumn(f, c) == \A tok \in ColumnTokens(f, c) : tok.k \in {"num", "empty"}

ParseCell(tok, numeric) ==
    IF tok.k = "empty" THEN NaN
    ELSE IF numeric THEN Num(tok.n)
    ELSE Str(TokenText(tok))

EmptyDF == [columns |-> {}, rows |-> << >>]

read_csv(f) ==
    [columns |-> f.header,
     rows |-> [i \in DOMAIN f.rows |->
                 [c \in f.header |-> ParseCell(RawCell(f.rows[i], c), NumericColumn(f, c))]]]

\* Variant that looks at the columns only.
IsEmpty_sem_linhas(d) == d.columns = {}

\* DataFrame.empty: some axis has length 0.
IsEmpty(d) == d.columns = {} \/ Len(d.rows) = 0

(***************************************************************************)
(* carregar_dados.                                                         *)
(***************************************************************************)
Diag(level, kind, cols) == [level |-> level, kind |-> kind, cols |-> cols]

\* The numbers whose numerals occur in input files.
Numerals ==
    { tok.n : tok \in { t \in UNION { {s.ano, s.cap, s.org, s.rede, s.cat, s.doc, s.tec} :
                                      s \in SeedCatalog } : t.k = "num" } }

\* Variant that never reads a str as a number.
to_numeric_sem_str(cell) == IF cell.t = "num" THEN cell ELSE NaN

\* pd.to_numeric(..., errors='coerce') on one cell: a number stays, a str
\* that is a numeral becomes its number, anything else becomes NaN.
to_numeric(cell) ==
    CASE cell.t = "num" -> cell
      [] cell.t = "str" ->
           IF \E n \in Numerals : ToString(n) = cell.s
           THEN Num(CHOOSE n \in Numerals : ToString(n) = cell.s)
           ELSE NaN
      [] OTHER -> NaN

fillna(cell, value) == IF cell.t = "nan" THEN value ELSE cell

\* Series.map(dict): the label of a number that is a key, NaN otherwise
\* (a str such as "1" is no key of a dict whose keys are ints).
map_dict(cell, m) ==
    IF cell.t = "num" /\ cell.n \in DOMAIN m THEN Str(m[cell.n]) ELSE NaN

\* Variant whose comparison ignores the case of the header's names.
missing_cols_sem_caixa(columns) ==
    SelectSeq(required_original_cols,
              LAMBDA col : col \notin columns
                           /\ ~(col = "QT_DOC_TOTAL" /\ "qt_doc_total" \in columns))

\* missing_cols, in the order of required_original_cols.
missing_cols(columns) ==
    SelectSeq(required_original_cols, LAMBDA col : col \notin columns)

\* After df.rename the frame holds two columns of one name.
DuplicatedLabel(columns, d) ==
    \E c1 \in columns, c2 \in columns : c1 # c2 /\ Renamed(c1) = d /\ Renamed(c2) = d

\* One row after rename, coercion and mapping.
NormalizeRow(row, columns) ==
    [d \in { Renamed(c) : c \in columns } |->
        LET c == IF d \in DOMAIN SourceOf /\ SourceOf[d] \in columns THEN SourceOf[d] ELSE d
        IN  IF d \in numeric_cols_to_fill THEN fillna(to_numeric(row[c]), Num(0))
            ELSE IF d \in coded_cols THEN fillna(map_dict(row[c], CodeMap(d)), Str(NaoDefinido))
            ELSE row[c]]

\* The body of the try block: what it returns or that it raised, with the
\* diagnostics emitted on the way.
TryBody(f) ==
    LET tentando == << Diag("info", "tentando_carregar", << >>) >>
    IN  IF ~f.exists
        THEN [exc |-> FALSE, df |-> EmptyDF,
              diags |-> tentando \o << Diag("error", "nao_encontrado", << >>),
                                       Diag("error", "coloque_o_arquivo", << >>) >>]
        ELSE IF ~f.parseable
        THEN [exc |-> TRUE, df |-> EmptyDF, diags |-> tentando]
        ELSE LET raw == read_csv(f)
                 missing == missing_cols(raw.columns)
             IN  IF missing # << >>
                 THEN [exc |-> FALSE, df |-> EmptyDF,
                       diags |-> tentando \o << Diag("error", "colunas_ausentes", missing) >>]
                 ELSE IF \E d \in numeric_cols_to_fill \cup coded_cols :
                            DuplicatedLabel(raw.columns, d)
                 THEN [exc |-> TRUE, df |-> EmptyDF, diags |-> tentando]
                 ELSE [exc |-> FALSE,
                       df |-> [columns |-> { Renamed(c) : c \in raw.columns },
                               rows |-> [i \in DOMAIN raw.rows |->
                                           NormalizeRow(raw.rows[i], raw.columns)]],
                       diags |-> tentando]

\* Variant without the handler: the exception leaves the function.
carregar_dados_sem_except(f) ==
    LET r == TryBody(f)
    IN  [raised |-> r.exc, df |-> r.df, diags |-> r.diags]

\* try ... except Exception: the function's result; raised says that an
\* exception leaves the function.
carregar_dados(f) ==
    LET r == TryBody(f)
    IN  IF r.exc
        THEN [raised |-> FALSE, df |-> EmptyDF,
              diags |-> r.diags \o << Diag("error", "erro_inesperado", << >>),
                                      Diag("info", "verifique_o_formato", << >>) >>]
        ELSE [raised |-> FALSE, df |-> r.df, diags |-> r.diags]

\* Variant without the cache: every call runs the body.
cached_call_sem_cache(c, f) ==
    LET r == carregar_dados(f)
    IN  [raised |-> r.raised, df |-> r.df, diags |-> r.diags, reparsed |-> TRUE,
         cache |-> IF r.raised THEN c ELSE [valid |-> TRUE, df |-> r.df, diags |-> r.diags]]

\* @st.cache_data on a function without parameters: the first call runs the
\* body and stores its result and the diagnostics it emitted; every later
\* call returns the stored result and replays the stored diagnostics.
cached_call(c, f) ==
    IF c.valid
    THEN [raised |-> FALSE, df |-> c.df, diags |-> c.diags, reparsed |-> FALSE, cache |-> c]
    ELSE LET r == carregar_dados(f)
         IN  [raised |-> r.raised, df |-> r.df, diags |-> r.diags, reparsed |-> TRUE,
              cache |-> IF r.raised THEN c
                        ELSE [valid |-> TRUE, df |-> r.df, diags |-> r.diags]]

(***************************************************************************)
(* The sidebar: option lists and the selection.                            *)
(***************************************************************************)
\* Series.unique(): the distinct cells of a column.
unique(d, c) == { d.rows[i][c] : i \in DOMAIN d.rows }

\* sorted(values) raises TypeError when it has to compare a str with a
\* float, which it does as soon as the values hold both.
sorted_raises(values) ==
    (\E v \in values : v.t = "str") /\ (\E v \in values : v.t # "str")

filter_cols ==
    << "Ano do Censo", "Organização Acadêmica", "Tipo de Rede", "Município", "Nome da IES" >>

\* The match-all entry of a column's selectbox; the year's has none.
Sentinel(c) ==
    CASE c = "Ano do Censo" -> None
      [] c = "Município" -> Str("Todos")
      [] OTHER -> Str("Todas")

\* Building the option lists raises.
SidebarRaises(d) ==
    \E i \in DOMAIN filter_cols :
        filter_cols[i] \in d.columns /\ sorted_raises(unique(d, filter_cols[i]))

\* Variant in which no selectbox has a match-all entry.
Options_sem_todas(d, c) ==
    IF c \notin d.columns THEN {Sentinel(c)} ELSE unique(d, c)

\* The entries of the selectbox of column c; a selectbox without entries
\* returns None.
Options(d, c) ==
    IF c \notin d.columns THEN {Sentinel(c)}
    ELSE IF c = "Ano do Censo"
         THEN (IF unique(d, c) = {} THEN {None} ELSE unique(d, c))
    ELSE {Sentinel(c)} \cup unique(d, c)

\* Every selection the sidebar offers: one entry per selectbox.
Selection(ano_sel, organizacao_sel, tipo_rede_sel, municipio_sel, instituicao_sel) ==
    ("Ano do Censo" :> ano_sel) @@ ("Organização Acadêmica" :> organizacao_sel) @@
    ("Tipo de Rede" :> tipo_rede_sel) @@ ("Município" :> municipio_sel) @@
    ("Nome da IES" :> instituicao_sel)

SidebarSelections(d) ==
    { Selection(a, o, r, m, i) :
        a \in Options(d, "Ano do Censo"), o \in Options(d, "Organização Acadêmica"),
        r \in Options(d, "Tipo de Rede"), m \in Options(d, "Município"),
        i \in Options(d, "Nome da IES") }

NoSelection == Selection(None, None, None, None, None)

(***************************************************************************)
(* Filtering.                                                              *)
(***************************************************************************)
\* pandas' element-wise ==: NaN is equal to nothing, itself included.
PdEq(a, b) == a.t # "nan" /\ b.t # "nan" /\ a = b

\* Variant whose boolean mask is aligned one row late: the first matching
\* row is lost at every selection.
WhereEq_desalinhado(d, c, value) ==
    [columns |-> d.columns,
     rows |-> LET hit == SelectSeq(d.rows, LAMBDA row : PdEq(row[c], value))
              IN  IF hit = << >> THEN hit ELSE Tail(hit)]

\* df_filtrado[df_filtrado[c] == value]
WhereEq(d, c, value) ==
    [columns |-> d.columns,
     rows |-> SelectSeq(d.rows, LAMBDA row : PdEq(row[c], value))]

\* Variant that compares every selection with 'Todas', Município's included.
FilterStep_todas(d, c, value) ==
    IF value # (IF c = "Ano do Censo" THEN None ELSE Str("Todas")) /\ c \in d.columns
    THEN WhereEq(d, c, value) ELSE d

\* One of the five if-statements: the guard, then the boolean-mask selection.
FilterStep(d, c, value) ==
    IF value # Sentinel(c) /\ c \in d.columns THEN WhereEq(d, c, value) ELSE d

RECURSIVE FilterFrom(_, _, _)
FilterFrom(d, s, i) ==
    IF i > Len(filter_cols) THEN d
    ELSE FilterFrom(FilterStep(d, filter_cols[i], s[filter_cols[i]]), s, i + 1)

\* df.copy(), then the five filters in the order of the script.
apply_filters(d, s) == FilterFrom(d, s, 1)

\* Variant without the copy, the selections assigned to df itself.
filter_block_sem_copia(d, s) ==
    [df |-> apply_filters(d, s), df_filtrado |-> apply_filters(d, s)]

\* The two tables after the filter block: each selection builds a new table
\* bound to df_filtrado, which starts as a copy; df is never assigned.
filter_block(d, s) ==
    [df |-> d, df_filtrado |-> apply_filters(d, s)]

(***************************************************************************)
(* Metrics and aggregations.                                               *)
(***************************************************************************)
RECURSIVE SumRows(_, _)
\* Series.sum() of column c.
SumRows(rows, c) ==
    IF rows = << >> THEN 0
    ELSE (IF Head(rows)[c].t = "num" THEN Head(rows)[c].n ELSE 0) + SumRows(Tail(rows), c)

\* Series.nunique(): the distinct cells that are not NaN.
nunique(d, c) == Cardinality({ v \in unique(d, c) : v.t # "nan" })

\* The rows of one group of groupby(c); groupby drops the NaN key.
GroupRows(d, c, key) == SelectSeq(d.rows, LAMBDA row : row[c] = key)
GroupKeys(d, c) == { v \in unique(d, c) : v.t # "nan" }

\* Variant that counts the rows, count() in place of nunique().
metrics_contagem(d) ==
    [total_ies |-> IF "Nome da IES" \in d.columns THEN Len(d.rows) ELSE 0,
     total_docentes_ex |->
        IF "Total de Docentes" \in d.columns THEN SumRows(d.rows, "Total de Docentes") ELSE 0,
     total_municipios_c_ies |-> IF "Município" \in d.columns THEN Len(d.rows) ELSE 0,
     total_livros_eletronicos |->
        IF "Total de Livros Eletrônicos" \in d.columns
        THEN SumRows(d.rows, "Total de Livros Eletrônicos") ELSE 0]

\* The four metrics of the header row.
metrics(d) ==
    [total_ies |-> IF "Nome da IES" \in d.columns THEN nunique(d, "Nome da IES") ELSE 0,
     total_docentes_ex |->
        IF "Total de Docentes" \in d.columns THEN SumRows(d.rows, "Total de Docentes") ELSE 0,
     total_municipios_c_ies |-> IF "Município" \in d.columns THEN nunique(d, "Município") ELSE 0,
     total_livros_eletronicos |->
        IF "Total de Livros Eletrônicos" \in d.columns
        THEN SumRows(d.rows, "Total de Livros Eletrônicos") ELSE 0]

NoMetrics == [total_ies |-> -1, total_docentes_ex |-> -1,
              total_municipios_c_ies |-> -1, total_livros_eletronicos |-> -1]

docentes_cols_for_plot ==
    { "Docentes Sem Graduação", "Docentes com Graduação", "Docentes com Especialização",
      "Docentes com Mestrado", "Docentes com Doutorado" }

group_cols ==
    { "Ano do Censo", "Município", "Nome da IES", "Sigla da IES",
      "Organização Acadêmica", "Tipo de Rede", "Categoria Administrativa" }

measures == { "Total de Docentes", "Total de Técnicos" }

\* The seven aggregations, named by the variable the script computes.
Aggregations ==
    { "ies_por_municipio", "tec_por_mantenedora", "docentes_por_org_e_sexo",
      "cat_admin_counts", "df_treemap_livros", "docentes_resumo_filtrado",
      "ies_summary_table" }

\* The columns the guard of an aggregation asks for.
agg_columns(a) ==
    CASE a = "ies_por_municipio" -> {"Município", "Nome da IES"}
      [] a = "tec_por_mantenedora" -> {"Mantenedora", "Total de Técnicos"}
      [] a = "docentes_por_org_e_sexo" ->
           {"Organização Acadêmica", "Docentes Feminino", "Docentes Masculino"}
      [] a = "cat_admin_counts" -> {"Categoria Administrativa"}
      [] a = "df_treemap_livros" ->
           {"Organização Acadêmica", "Categoria Administrativa", "Tipo de Rede",
            "Total de Livros Eletrônicos"}
      [] a = "docentes_resumo_filtrado" -> docentes_cols_for_plot
      [] a = "ies_summary_table" -> group_cols \cup measures

\* Variant with one guard for all: a column any aggregation lacks skips them all.
agg_guard_global(d, a) ==
    (UNION { agg_columns(b) : b \in Aggregations }) \subseteq d.columns /\ ~IsEmpty(d)

\* The guard of an aggregation's if-statement.
agg_guard(d, a) == agg_columns(a) \subseteq d.columns /\ ~IsEmpty(d)

\* groupby("Mantenedora")["Total de Técnicos"].sum()
tec_sums(d) ==
    [key \in GroupKeys(d, "Mantenedora") |->
        SumRows(GroupRows(d, "Mantenedora", key), "Total de Técnicos")]

\* Variant that sorts with ascending=False.
tec_orders_desc(d) ==
    LET sums == tec_sums(d)
        n == Cardinality(DOMAIN sums)
    IN  { q \in [1..n -> DOMAIN sums] :
            /\ \A i, j \in 1..n : i # j => q[i] # q[j]
            /\ \A i, j \in 1..n : i < j => sums[q[i]] >= sums[q[j]] }

\* The orders sort_values("Total de Técnicos", ascending=True) may leave the
\* groups in: ascending by sum, equal sums in any order.
tec_orders(d) ==
    LET sums == tec_sums(d)
        n == Cardinality(DOMAIN sums)
    IN  { q \in [1..n -> DOMAIN sums] :
            /\ \A i, j \in 1..n : i # j => q[i] # q[j]
            /\ \A i, j \in 1..n : i < j => sums[q[i]] <= sums[q[j]] }

tec_table(d, q) ==
    [i \in DOMAIN q |-> [Mantenedora |-> q[i], total |-> tec_sums(d)[q[i]]]]

NoOutput ==
    [load_error |-> FALSE, notice |-> FALSE, metrics |-> NoMetrics, preview |-> -1,
     computed |-> {}, warnings |-> {}, tec_por_mantenedora |-> << >>]

\* Variant without the empty check: the content is computed anyway.
render_sem_vazio(d, q) ==
    [load_error |-> FALSE, notice |-> IsEmpty(d), metrics |-> metrics(d),
     preview |-> IF Len(d.rows) < 10 THEN Len(d.rows) ELSE 10,
     computed |-> { a \in Aggregations : agg_columns(a) \subseteq d.columns },
     warnings |-> { a \in Aggregations : ~(agg_columns(a) \subseteq d.columns) },
     tec_por_mantenedora |-> << >>]

\* What the content area shows for a filtered table: the notice, or the
\* metrics, the preview of at most ten rows and the aggregations whose
\* guard holds, with a warning for each one whose guard fails.
render(d, q) ==
    IF IsEmpty(d)
    THEN [NoOutput EXCEPT !.notice = TRUE]
    ELSE [load_error |-> FALSE, notice |-> FALSE, metrics |-> metrics(d),
          preview |-> IF Len(d.rows) < 10 THEN Len(d.rows) ELSE 10,
          computed |-> { a \in Aggregations : agg_guard(d, a) },
          warnings |-> { a \in Aggregations : ~agg_guard(d, a) },
          tec_por_mantenedora |->
             IF agg_guard(d, "tec_por_mantenedora") THEN tec_table(d, q) ELSE << >>]

(***************************************************************************)
(* The state machine: the file on disk, the cache of the process, and one  *)
(* run of the script at a time.                                            *)
(***************************************************************************)
VARIABLES
    file,         \* the input file as it is on disk
    cache,        \* what st.cache_data holds for carregar_dados
    pc,           \* where the current run of the script is
    df,           \* the table carregar_dados() returned to this run
    diags,        \* the diagnostics carregar_dados emitted in this run
    reparsed,     \* the body of carregar_dados ran in this run
    sel,          \* the sidebar selection of this run
    df_filtrado,  \* the filtered table of this run
    out           \* what the content area shows

vars == << file, cache, pc, df, diags, reparsed, sel, df_filtrado, out >>

NoCache == [valid |-> FALSE, df |-> EmptyDF, diags |-> << >>]

\* The files the input file may be replaced by between two runs.
ReplacementFiles ==
    {MissingFile} \cup { File(TRUE, TRUE, RequiredSet, r) : r \in { q \in RowSeqs : Len(q) = 1 } }

Init ==
    /\ file \in Files
    /\ cache = NoCache
    /\ pc = "idle"
    /\ df = EmptyDF
    /\ diags = << >>
    /\ reparsed = FALSE
    /\ sel = NoSelection
    /\ df_filtrado = EmptyDF
    /\ out = NoOutput

\* df = carregar_dados()
Load ==
    /\ pc = "idle"
    /\ \E r \in {cached_call(cache, file)} :
           /\ pc' = IF r.raised THEN "load_fault" ELSE "loaded"
           /\ df' = r.df
           /\ diags' = r.diags
           /\ reparsed' = r.reparsed
           /\ cache' = r.cache
    /\ UNCHANGED << file, sel, df_filtrado, out >>

\* if not df.empty: ... else: the terminal "could not load" branch.
CouldNotLoad ==
    /\ pc = "loaded"
    /\ IsEmpty(df)
    /\ out' = [NoOutput EXCEPT !.load_error = TRUE]
    /\ pc' = "done"
    /\ UNCHANGED << file, cache, df, diags, reparsed, sel, df_filtrado >>

\* sorted(df[c].unique()) raises: the run ends in the exception.
SidebarFault ==
    /\ pc = "loaded"
    /\ ~IsEmpty(df)
    /\ SidebarRaises(df)
    /\ pc' = "fault"
    /\ UNCHANGED << file, cache, df, diags, reparsed, sel, df_filtrado, out >>

\* The five selectboxes, each returning the entry the user has chosen.
Sidebar ==
    /\ pc = "loaded"
    /\ ~IsEmpty(df)
    /\ ~SidebarRaises(df)
    /\ \E s \in SidebarSelections(df) : sel' = s
    /\ pc' = "selected"
    /\ UNCHANGED << file, cache, df, diags, reparsed, df_filtrado, out >>

Filter ==
    /\ pc = "selected"
    /\ \E r \in {filter_block(df, sel)} :
           /\ df' = r.df
           /\ df_filtrado' = r.df_filtrado
    /\ pc' = "filtered"
    /\ UNCHANGED << file, cache, diags, reparsed, sel, out >>

Render ==
    /\ pc = "filtered"
    /\ \E q \in (IF agg_guard(df_filtrado, "tec_por_mantenedora")
                 THEN tec_orders(df_filtrado) ELSE {<< >>}) :
          out' = render(df_filtrado, q)
    /\ pc' = "done"
    /\ UNCHANGED << file, cache, df, diags, reparsed, sel, df_filtrado >>

\* The next interaction: the script starts again from the top.
Rerun ==
    /\ pc \in {"done", "fault", "load_fault"}
    /\ pc' = "idle"
    /\ df' = EmptyDF
    /\ diags' = << >>
    /\ reparsed' = FALSE
    /\ sel' = NoSelection
    /\ df_filtrado' = EmptyDF
    /\ out' = NoOutput
    /\ UNCHANGED << file, cache >>

\* Between two runs the file is replaced, removed or put in place.
ReplaceFile ==
    /\ pc = "idle"
    /\ cache.valid
    /\ \E f \in ReplacementFiles : f # file /\ file' = f
    /\ UNCHANGED << cache, pc, df, diags, reparsed, sel, df_filtrado, out >>

RunNext == CouldNotLoad \/ SidebarFault \/ Sidebar \/ Filter \/ Render

Next == Load \/ RunNext \/ Rerun \/ ReplaceFile

Spec == Init /\ [][Next]_vars

(***************************************************************************)
(* The script run on a table that has lost columns after normalization     *)
(* (schema drift): the else-branches of the sidebar and the guards of the  *)
(* metrics and aggregations are written for such tables.                   *)
(***************************************************************************)
DriftCols ==
    { "Ano do Censo", "Município", "Mantenedora", "Docentes Feminino",
      "Categoria Administrativa", "Total de Livros Eletrônicos",
      "Docentes com Mestrado", "Sigla da IES" }

DropColumns(d, drop) ==
    [columns |-> d.columns \ drop,
     rows |-> [i \in DOMAIN d.rows |-> [c \in d.columns \ drop |-> d.rows[i][c]]]]

DriftFiles == { File(TRUE, TRUE, RequiredSet, r) : r \in { q \in RowSeqs : Len(q) = 1 } }

InitAgg ==
    /\ file \in DriftFiles
    /\ \E r \in {carregar_dados(file)} : \E drop \in SUBSET DriftCols :
          /\ df = DropColumns(r.df, drop)
          /\ cache = [valid |-> TRUE, df |-> df, diags |-> r.diags]
          /\ diags = r.diags
    /\ pc = "loaded"
    /\ reparsed = FALSE
    /\ sel = NoSelection
    /\ df_filtrado = EmptyDF
    /\ out = NoOutput

NextAgg == Sidebar \/ Filter \/ Render

SpecAgg == InitAgg /\ [][NextAgg]_vars

(***************************************************************************)
(* Properties.                                                             *)
(***************************************************************************)
HasError(ds) == \E i \in DOMAIN ds : ds[i].level = "error"

\* The header holds, next to a source column, the very name df.rename
\* gives it, for a column the loader coerces or maps: the frame then has
\* two columns of that name and the coercion raises.
HeaderCollides(h) ==
    \E c \in h : c \in RenamedCols /\ rename_columns[c] \in h
                 /\ rename_columns[c] \in numeric_cols_to_fill \cup coded_cols

\* The body of carregar_dados ran in this run and returned a table with
\* columns: a successful load of the file now on disk.
LoadedOk == reparsed /\ df.columns # {}

\* C1: carregar_dados never raises to its caller; for a missing file, a
\* header lacking required columns, or an exception while parsing or
\* normalizing, it returns the empty table with an error diagnostic; in
\* every other case it returns the normalized table (the renamed columns,
\* one row per data row) and emits no error.
C1_CarregarDadosNeverRaises ==
    /\ pc # "load_fault"
    /\ reparsed =>
         IF \/ ~file.exists
            \/ ~file.parseable
            \/ ~(RequiredSet \subseteq file.header)
            \/ HeaderCollides(file.header)
         THEN df = EmptyDF /\ HasError(diags)
         ELSE /\ df.columns = { Renamed(c) : c \in file.header }
              /\ Len(df.rows) = Len(file.rows)
              /\ ~HasError(diags)

\* C1 witness: the coercion raised inside the loader (colliding header) and
\* the caller got the empty table with the unexpected-error diagnostic.
C1_Witness ==
    /\ pc = "loaded" /\ reparsed
    /\ file.exists /\ file.parseable /\ RequiredSet \subseteq file.header
    /\ HeaderCollides(file.header)
    /\ df = EmptyDF
    /\ \E i \in DOMAIN diags : diags[i].kind = "erro_inesperado"

\* C2: when the file was read and its header lacks required names, the
\* loader emits exactly one error, which lists exactly the absent required
\* names (compared case-sensitively), and returns the empty table; a header
\* with all twenty names emits no missing-column diagnostic.
C2_MissingColumnsDiagnostic ==
    (reparsed /\ file.exists /\ file.parseable) =>
        LET absent == RequiredSet \ file.header
            errors == { i \in DOMAIN diags : diags[i].level = "error" }
        IN  IF absent # {}
            THEN /\ df = EmptyDF
                 /\ Cardinality(errors) = 1
                 /\ \A i \in errors : /\ diags[i].kind = "colunas_ausentes"
                                      /\ Range(diags[i].cols) = absent
                                      /\ Len(diags[i].cols) = Cardinality(absent)
            ELSE \A i \in DOMAIN diags : diags[i].kind # "colunas_ausentes"

\* C2 witness: a header with qt_doc_total in lower case and without TP_REDE
\* was reported as lacking QT_DOC_TOTAL and TP_REDE.
C2_Witness ==
    /\ pc = "loaded" /\ reparsed
    /\ "qt_doc_total" \in file.header /\ "QT_DOC_TOTAL" \notin file.header
    /\ "TP_REDE" \notin file.header
    /\ \E i \in DOMAIN diags : diags[i].cols = << "TP_REDE", "QT_DOC_TOTAL" >>

\* C3 (as claimed): no run ends in an unhandled fault.
C3_NoUnhandledFault == pc \notin {"fault", "load_fault"}

\* The label the lookup table of source column c gives for a raw token.
LabelOf(c, tok) ==
    IF tok.k = "num" /\ tok.n \in DOMAIN CodeMap(Renamed(c))
    THEN CodeMap(Renamed(c))[tok.n] ELSE NaoDefinido

CodedSourceCols ==
    { "IN_CAPITAL_IES", "TP_ORGANIZACAO_ACADEMICA", "TP_REDE", "TP_CATEGORIA_ADMINISTRATIVA" }

CountSourceCols == { c \in RequiredSet : Renamed(c) \in numeric_cols_to_fill }

\* C4 (as claimed): after a successful load every cell of the four coded
\* columns is the label the lookup table gives for the row's raw code, and
\* 'Não Definido' for a raw value without entry.
C4_CodedCellsCarryTheLabel ==
    LoadedOk =>
        \A i \in DOMAIN df.rows : \A c \in CodedSourceCols :
            df.rows[i][Renamed(c)] = Str(LabelOf(c, RawCell(file.rows[i], c)))

\* C5: after a successful load every cell of the ten count columns is a
\* number: the raw numeral's number, and 0 for a missing or non-numeric
\* raw value.
C5_CountCellsAreNumbers ==
    LoadedOk =>
        \A i \in DOMAIN df.rows : \A c \in CountSourceCols :
            LET tok == RawCell(file.rows[i], c)
                v == df.rows[i][Renamed(c)]
            IN  v.t = "num" /\ v.n = (IF tok.k = "num" THEN tok.n ELSE 0)

\* C5 witness: QT_DOC_TOTAL holds a non-numeric cell in one row and 10 in
\* another (read_csv keeps the column as str); the load succeeded with 0
\* and 10 in Total de Docentes.
C5_Witness ==
    /\ LoadedOk
    /\ \E i, j \in DOMAIN df.rows :
          /\ RawCell(file.rows[i], "QT_DOC_TOTAL").k = "txt"
          /\ df.rows[i]["Total de Docentes"] = Num(0)
          /\ RawCell(file.rows[j], "QT_DOC_TOTAL") = TNum(10)
          /\ df.rows[j]["Total de Docentes"] = Num(10)

\* The run has filtered (and not taken the could-not-load branch).
Filtered == pc \in {"filtered", "done"} /\ ~out.load_error

\* The script applies a predicate on column c: the guard of its
\* if-statement holds.
HasPredicate(d, s, c) == s[c] # Sentinel(c) /\ c \in d.columns

\* C6: the filtered subset is exactly the rows of the normalized table, in
\* their order, that equal the selected value on every column whose
\* selection is not the match-all entry; a column whose selection is the
\* match-all entry excludes no row, also when a cell of that column is
\* spelled like it.  Equality is pandas' ==, under which a missing cell is
\* equal to nothing.
C6_FilteredIsTheConjunction ==
    Filtered =>
        /\ df_filtrado.columns = df.columns
        /\ df_filtrado.rows =
              SelectSeq(df.rows,
                        LAMBDA row : \A c \in Range(filter_cols) :
                                        sel[c] # Sentinel(c) => PdEq(row[c], sel[c]))

\* C6 witness: the institution selectbox returned 'Todas' while the table
\* has an institution of that name; a municipality was selected and
\* excluded that row; a row of another institution name was kept.
C6_Witness ==
    /\ pc = "filtered"
    /\ sel["Nome da IES"] = Str("Todas")
    /\ \E i \in DOMAIN df.rows : df.rows[i]["Nome da IES"] = Str("Todas")
    /\ sel["Município"] # Str("Todos")
    /\ Len(df_filtrado.rows) < Len(df.rows)
    /\ \E i \in DOMAIN df_filtrado.rows : df_filtrado.rows[i]["Nome da IES"] # Str("Todas")

\* C7 (as claimed): for each of the five filterable columns the sidebar
\* offers a selection under which the script applies no predicate on it.
C7_EveryPredicateOptional ==
    pc = "selected" =>
        \A c \in Range(filter_cols) :
            \E s \in SidebarSelections(df) : ~HasPredicate(df, s, c)

FourOptionalCols ==
    { "Organização Acadêmica", "Tipo de Rede", "Município", "Nome da IES" }

\* C7 (amended): organization, network type, municipality and institution
\* name each have a selection without predicate, and then no row is
\* excluded on that column; the census year has none: every selection
\* carries a year predicate whose value is a year cell of the table.
C7_FourPredicatesOptional ==
    /\ pc = "selected" =>
          /\ \A c \in FourOptionalCols :
                \E v \in Options(df, c) : ~HasPredicate(df, [sel EXCEPT ![c] = v], c)
          /\ \A v \in Options(df, "Ano do Censo") :
                HasPredicate(df, [sel EXCEPT !["Ano do Censo"] = v], "Ano do Censo")
          /\ HasPredicate(df, sel, "Ano do Censo")
          /\ sel["Ano do Censo"] \in unique(df, "Ano do Censo")
    /\ pc = "filtered" =>
          \A c \in Range(filter_cols) :
             ~HasPredicate(df, sel, c) =>
                \A i \in DOMAIN df.rows :
                   (\A c2 \in Range(filter_cols) \ {c} :
                       HasPredicate(df, sel, c2) => PdEq(df.rows[i][c2], sel[c2]))
                   => \E j \in DOMAIN df_filtrado.rows : df_filtrado.rows[j] = df.rows[i]

\* C7 witness: the municipality selection is the match-all entry and rows
\* of two municipalities were kept, under a year predicate.
C7_Witness ==
    /\ pc = "filtered"
    /\ ~HasPredicate(df, sel, "Município")
    /\ HasPredicate(df, sel, "Ano do Censo")
    /\ \E i, j \in DOMAIN df_filtrado.rows :
          df_filtrado.rows[i]["Município"] # df_filtrado.rows[j]["Município"]

\* C8: when the filters leave zero rows the run shows the no-records notice
\* and computes no metric, no preview and no aggregation; when a row
\* remains the notice is not shown.
C8_EmptySelectionShowsNotice ==
    (pc = "done" /\ ~out.load_error) =>
        IF Len(df_filtrado.rows) = 0
        THEN /\ out.notice
             /\ out.metrics = NoMetrics
             /\ out.preview = -1
             /\ out.computed = {}
             /\ out.tec_por_mantenedora = << >>
        ELSE /\ ~out.notice
             /\ out.metrics # NoMetrics
             /\ out.preview > 0

\* C8 witness: a municipality and a year were selected that no row has
\* together; the notice is shown.
C8_Witness ==
    /\ pc = "done" /\ ~out.load_error
    /\ Len(df.rows) > 0 /\ Len(df_filtrado.rows) = 0
    /\ sel["Município"] \notin {Str("Todos"), NaN}
    /\ sel["Ano do Censo"] # NaN
    /\ out.notice

\* C9: for a non-empty filtered subset, an aggregation is computed exactly
\* when all of its own columns are present; one that lacks a column is
\* skipped with its own warning, whatever columns the others lack.
C9_AggregationsFailSeparately ==
    (pc = "done" /\ ~out.load_error /\ Len(df_filtrado.rows) > 0) =>
        \A a \in Aggregations :
            /\ a \in out.computed <=> agg_columns(a) \subseteq df_filtrado.columns
            /\ a \in out.warnings <=> a \notin out.computed

\* C9 witness: the table lacks Categoria Administrativa: the aggregations
\* that read it are skipped with a warning, the technical-staff one, the
\* degree-level one and the per-municipality one are computed.
C9_Witness ==
    /\ pc = "done" /\ Len(df_filtrado.rows) > 0
    /\ "Categoria Administrativa" \notin df_filtrado.columns
    /\ {"cat_admin_counts", "df_treemap_livros", "ies_summary_table"} \subseteq out.warnings
    /\ {"tec_por_mantenedora", "docentes_resumo_filtrado", "ies_por_municipio"}
          \subseteq out.computed

C11_FilteringIsIdempotent ==
    Filtered => apply_filters(df_filtrado, sel) = df_filtrado

\* C11 witness: a filtered table that lost a row of the loaded table and
\* kept another, under a selection with a predicate besides the year's.
C11_Witness ==
    /\ Filtered
    /\ Len(df_filtrado.rows) >= 1
    /\ Len(df_filtrado.rows) < Len(df.rows)
    /\ \E i \in 2..Len(filter_cols) : HasPredicate(df, sel, filter_cols[i])
    /\ apply_filters(df_filtrado, sel) = df_filtrado

\* The distinct institution names of a table, missing cells left out.
InstitutionNames(d) ==
    { d.rows[i]["Nome da IES"] : i \in DOMAIN d.rows } \ {NaN}

\* A run that showed the metrics and the aggregations.
Rendered == pc = "done" /\ ~out.load_error /\ ~out.notice

\* C12: the distinct-institution metric shown for the filtered table never
\* exceeds the number of distinct institution names of the loaded table.
C12_MetricBoundedByUnfiltered ==
    Rendered => Cardinality(InstitutionNames(df)) >= out.metrics.total_ies

\* C12 witness: the filters removed an institution: the metric counts at
\* least one institution and fewer than the loaded table has.
C12_Witness ==
    /\ Rendered
    /\ out.metrics.total_ies >= 1
    /\ out.metrics.total_ies < Cardinality(InstitutionNames(df))

\* The maintaining entities occurring in a table, missing cells left out.
Entities(d) ==
    { d.rows[i]["Mantenedora"] : i \in DOMAIN d.rows } \ {NaN}

\* The technical-staff counts of the rows of entity e, added up.
StaffOf(d, e) ==
    SumRows(SelectSeq(d.rows, LAMBDA row : row["Mantenedora"] = e), "Total de Técnicos")

\* C13: the technical-staff aggregation has exactly one entry per maintaining
\* entity of the filtered table, the entry's value is the sum of the
\* technical-staff counts of the entity's filtered rows, and the entries are
\* in ascending order of that sum.
C13_TecPorMantenedora ==
    (Rendered /\ "tec_por_mantenedora" \in out.computed) =>
        LET t == out.tec_por_mantenedora
        IN  /\ { t[i].Mantenedora : i \in DOMAIN t } = Entities(df_filtrado)
            /\ Len(t) = Cardinality(Entities(df_filtrado))
            /\ \A i \in DOMAIN t : t[i].total = StaffOf(df_filtrado, t[i].Mantenedora)
            /\ \A i, j \in DOMAIN t : i < j => t[i].total <= t[j].total

\* C13 witness: two filtered rows of entity 'X' with 5 and 7 technical staff
\* give the single entry X = 12.
C13_Witness ==
    /\ Rendered
    /\ Len(df_filtrado.rows) = 2
    /\ { df_filtrado.rows[i]["Total de Técnicos"] : i \in 1..2 } = {Num(5), Num(7)}
    /\ out.tec_por_mantenedora = << [Mantenedora |-> Str("X"), total |-> 12] >>

\* C14: the normalized table is unchanged by every run: no step after the
\* load changes the table of the run, no step changes the stored table, and
\* every later run starts from the stored table; filtering and aggregation
\* act on derived tables only.
C14_NormalizedTableUnchanged ==
    [][ /\ (pc \in {"loaded", "selected", "filtered"} => df' = df)
        /\ (cache.valid => cache'.df = cache.df)
        /\ (pc = "idle" /\ cache.valid /\ pc' = "loaded" => df' = cache.df) ]_vars

\* C14 witness: a later run filtered a row out and computed the metrics and
\* all seven aggregations, and its table is still the stored one.
C14_Witness ==
    /\ Rendered /\ ~reparsed
    /\ Len(df_filtrado.rows) < Len(df.rows)
    /\ out.computed = Aggregations
    /\ df = cache.df

\* The run went past the test of line 139 into the main block.
InMainBlock ==
    \/ pc \in {"selected", "filtered", "fault"}
    \/ pc = "done" /\ ~out.load_error

\* The file is well formed and has every required column but no data row.
HeaderOnlyFile ==
    /\ file.exists /\ file.parseable
    /\ RequiredSet \subseteq file.header /\ ~HeaderCollides(file.header)
    /\ Len(file.rows) = 0

\* C15: a run ends in the "could not load the data" branch exactly when the
\* table the loader returned has no rows or no columns; a file with every
\* required column and no data row ends there although the loader emitted
\* no error; and the sidebar, filter, metric and aggregation steps run only
\* on a loaded table with at least one row.
C15_CouldNotLoadIffEmpty ==
    /\ pc = "done" => (out.load_error <=> (df.columns = {} \/ Len(df.rows) = 0))
    /\ InMainBlock => Len(df.rows) >= 1 /\ df.columns # {}
    /\ (pc = "done" /\ reparsed /\ HeaderOnlyFile) => out.load_error /\ ~HasError(diags)

\* C15 witness: the file parsed in this run has every required column and
\* no data row; the loader emitted no error and returned a table with the
\* columns and no rows, and the run ended in the terminal branch.
C15_Witness ==
    /\ pc = "done" /\ reparsed /\ HeaderOnlyFile
    /\ df.columns # {} /\ Len(df.rows) = 0
    /\ ~HasError(diags)
    /\ out.load_error

=============================================================================
